---- MODULE Spec2Model ----
(***************************************************************************)
(* Session / authentication state machine of TelcoNova-P7F4-front:         *)
(* AuthService (src/lib/auth.ts), the token helpers and authFetch          *)
(* (api.ts), the useAuth hook (src/hooks/use-auth.tsx) and the two         *)
(* components that mount it (Login page, Header of the Index page).        *)
(*                                                                         *)
(* Time is Date.now() in milliseconds.  The clock is only observed at      *)
(* multiples of TimeStep.  Everything kept in localStorage is a variable;  *)
(* the two in-memory Maps of AuthService are functions whose DOMAIN is the *)
(* set of keys of the Map.                                                 *)
(***************************************************************************)
EXTENDS Integers, Sequences, FiniteSets, TLC

VARIABLES
    now,            \* Date.now()
    useMock,        \* USE_MOCK_AUTH (build-time configuration)
    backendSync,    \* which AuthService of auth.ts is built: FALSE the one
                    \* with mockLogin and remote revocation, TRUE the one that
                    \* synchronises the attempt count with the backend
    failedAttempts, \* AuthService.failedAttempts : Map<string, number>
    blockUntil,     \* AuthService.blockUntil     : Map<string, number>
    storage,        \* localStorage['auth_failed_attempts'] and
                    \* localStorage['auth_block_until']: None, or Some(the
                    \* array of [key, value] pairs that JSON.stringify wrote)
    token,          \* localStorage[TOKEN_STORAGE_KEY]
    authUsername,   \* localStorage['auth_username']
    lastActivity,   \* localStorage['last_activity']  (None or <<ms>>)
    logs,           \* localStorage['auth_logs']
    recorded,       \* number of logEvent calls made so far
    pendingLogin,   \* login() calls suspended at their await
    pendingLogout,  \* logout() calls suspended at `await authFetch`
    result,         \* outcome of the call that finished (or was issued) last
    route,          \* current location of the BrowserRouter
    hooks,          \* state of every component instance that calls useAuth()
    lastTracked,    \* history: time of the latest login or tracked interaction
    templates,      \* localStorage['template_management_templates']
    tplPending,     \* the template call suspended at its fetch, if any
    tplResult,      \* outcome of the template call that finished last
    regexLastIndex  \* VARIABLE_REGEX.lastIndex (the regex has the g flag)

vars == <<now, useMock, backendSync, failedAttempts, blockUntil, storage, token,
          authUsername, lastActivity, logs, recorded, pendingLogin, pendingLogout, result,
          route, hooks, lastTracked, templates, tplPending, tplResult,
          regexLastIndex>>

cfgVars  == <<useMock, backendSync>>
svcVars  == <<failedAttempts, blockUntil, storage>>
sessVars == <<token, authUsername, lastActivity>>
logVars  == <<logs, recorded>>
uiVars   == <<route, hooks>>
tplVars  == <<templates, tplPending, tplResult, regexLastIndex>>
authVars == <<now, cfgVars, svcVars, sessVars, logVars, pendingLogin,
              pendingLogout, result, uiVars, lastTracked>>

----------------------------------------------------------------------------
(* Program constants *)

MAX_ATTEMPTS == 3
BLOCK_DURATION == 15 * 60 * 1000
INACTIVITY_TIMEOUT == 15 * 60 * 1000
POLL_INTERVAL == 60000
MAX_LOGS == 100

(* Bounds of the model *)

TimeStep == 60000
StartTime == 1200000
Horizon == 1020000
MaxNow == StartTime + Horizon
MaxEvents == 4
MaxPendingLogin == 2
MaxPendingLogout == 2
StoredLen == 98

(* Inputs *)

Usernames == {"admin", "intruso"}
Passwords == {"admin123", "wrong"}
Credentials ==
    {<<"admin", "admin123">>, <<"admin", "wrong">>, <<"intruso", "wrong">>}

NULL == "<null>"
None == <<>>
Some(x) == <<x>>

Instances == {"Login", "Header"}

\* offsets from StartTime at which the visitor acts and responses arrive;
\* interval timers run at every multiple of POLL_INTERVAL all the same
InputOffsets == {0, 60000, 900000, 960000}

----------------------------------------------------------------------------
(* Map<string, number> helpers *)

MapGetOr(m, k, d) == IF k \in DOMAIN m THEN m[k] ELSE d
MapSet(m, k, v) == [x \in (DOMAIN m) \cup {k} |-> IF x = k THEN v ELSE m[x]]
MapDelete(m, k) == [x \in (DOMAIN m) \ {k} |-> m[x]]
EmptyMap == [x \in {} |-> 0]

\* [...map]: the entries of a Map as an array of [key, value] pairs
ToEntries(m) ==
    LET n   == Cardinality(DOMAIN m)
        ord == CHOOSE f \in [1..n -> DOMAIN m] :
                   \A i, j \in 1..n : i # j => f[i] # f[j]
    IN  [i \in 1..n |-> <<ord[i], m[ord[i]]>>]

\* new Map(entries): a later pair replaces an earlier one with the same key
FromEntries(e) ==
    [k \in {e[i][1] : i \in 1..Len(e)} |->
        LET last == CHOOSE i \in 1..Len(e) :
                        /\ e[i][1] = k
                        /\ \A j \in (i + 1)..Len(e) : e[j][1] # k
        IN  e[last][2]]

Max(a, b) == IF a >= b THEN a ELSE b

\* !!value for a string-or-null value read from localStorage
Truthy(v) == v # NULL /\ v # ""

\* a || b || 'unknown' over string-or-null values
OrElse(a, b) == IF Truthy(a) THEN a ELSE b

----------------------------------------------------------------------------
(* api.ts: token helpers *)

getToken == token

\* AuthService.isAuthenticated
isAuthenticated == Truthy(getToken)

\* AuthService.getLastActivity
getLastActivity == IF lastActivity = None THEN 0 ELSE lastActivity[1]

----------------------------------------------------------------------------
(* AuthService: lockout bookkeeping *)

\* a saveState that writes the attempt counts only
saveStateAttemptsOnly(fa, bu) ==
    [attempts |-> Some(ToEntries(fa)), block |-> None]

\* AuthService.saveState: both maps are written out
saveState(fa, bu) ==
    [attempts |-> Some(ToEntries(fa)), block |-> Some(ToEntries(bu))]

\* the constructor: a key that is present is parsed back into a Map
loadState(item) == IF item = None THEN EmptyMap ELSE FromEntries(item[1])

\* the value isBlocked(username) returns
isBlocked(bu, t, username) ==
    LET blockTime == MapGetOr(bu, username, 0)
    IN  blockTime # 0 /\ t < blockTime

\* whether isBlocked(username) takes its unblocking branch
blockExpired(bu, t, username) ==
    LET blockTime == MapGetOr(bu, username, 0)
    IN  blockTime # 0 /\ t >= blockTime

\* variant of isBlocked that unblocks without clearing the attempt count
isBlockedMapsKeepCount(fa, bu, t, username) ==
    IF blockExpired(bu, t, username)
    THEN [fa |-> fa, bu |-> MapDelete(bu, username),
          st |-> saveState(fa, MapDelete(bu, username))]
    ELSE [fa |-> fa, bu |-> bu, st |-> storage]

\* variant of isBlocked that restarts the lock window on every blocked check
isBlockedMapsSliding(fa, bu, t, username) ==
    IF blockExpired(bu, t, username)
    THEN [fa |-> MapDelete(fa, username), bu |-> MapDelete(bu, username),
          st |-> saveState(MapDelete(fa, username), MapDelete(bu, username))]
    ELSE IF isBlocked(bu, t, username)
    THEN [fa |-> fa, bu |-> MapSet(bu, username, t + BLOCK_DURATION),
          st |-> saveState(fa, MapSet(bu, username, t + BLOCK_DURATION))]
    ELSE [fa |-> fa, bu |-> bu, st |-> storage]

\* the two maps after isBlocked(username) has run
isBlockedMaps(fa, bu, t, username) ==
    IF blockExpired(bu, t, username)
    THEN [fa |-> MapDelete(fa, username), bu |-> MapDelete(bu, username),
          st |-> saveState(MapDelete(fa, username), MapDelete(bu, username))]
    ELSE [fa |-> fa, bu |-> bu, st |-> storage]

\* variant of getBlockTimeRemaining that forgets to subtract Date.now()
getBlockTimeRemainingAbsolute(bu, t, username) ==
    LET blockTime == MapGetOr(bu, username, 0)
    IN  IF blockTime = 0 THEN 0 ELSE Max(0, blockTime)

getBlockTimeRemaining(bu, t, username) ==
    LET blockTime == MapGetOr(bu, username, 0)
    IN  IF blockTime = 0 THEN 0 ELSE Max(0, blockTime - t)

\* variant that rounds the remaining minutes down
FloorMinutes(ms) == ms \div 60000

\* Math.ceil(ms / 60000) for ms >= 0
CeilMinutes(ms) == (ms + 59999) \div 60000

getRemainingAttempts(fa, username) ==
    Max(0, MAX_ATTEMPTS - MapGetOr(fa, username, 0))

----------------------------------------------------------------------------
(* AuthService.logEvent *)

\* fecha, hora, descripcion and ip are written and never read back by the
\* program; an entry is modelled by the two fields the claims speak about
Event(eventType, username, t) ==
    [usuario |-> username, tipoEvento |-> eventType]

\* variant of logEvent that puts the new entry first (unshift for push)
logEventPrepend(lg, eventType, username, t) ==
    LET pushed == <<Event(eventType, username, t)>> \o lg
    IN  IF Len(pushed) > MAX_LOGS THEN Tail(pushed) ELSE pushed

\* variant of logEvent that makes room by dropping the entry just pushed
logEventDropNewest(lg, eventType, username, t) ==
    LET pushed == Append(lg, Event(eventType, username, t))
    IN  IF Len(pushed) > MAX_LOGS THEN SubSeq(pushed, 1, MAX_LOGS) ELSE pushed

logEvent(lg, eventType, username, t) ==
    LET pushed == Append(lg, Event(eventType, username, t))
    IN  IF Len(pushed) > MAX_LOGS THEN Tail(pushed) ELSE pushed

\* variant of recordFailedAttempt that locks one failure too late
recordFailedAttemptLate(fa, bu, lg, t, username) ==
    LET attempts == MapGetOr(fa, username, 0) + 1
    IN  IF attempts > MAX_ATTEMPTS
        THEN [fa |-> MapSet(fa, username, attempts),
              bu |-> MapSet(bu, username, t + BLOCK_DURATION),
              lg |-> logEvent(lg, "ACCOUNT_BLOCKED", username, t),
              st |-> saveState(MapSet(fa, username, attempts),
                               MapSet(bu, username, t + BLOCK_DURATION)),
              attempts |-> attempts]
        ELSE [fa |-> MapSet(fa, username, attempts),
              bu |-> bu,
              lg |-> logEvent(lg, "LOGIN_FAILED", username, t),
              st |-> saveState(MapSet(fa, username, attempts), bu),
              attempts |-> attempts]

\* AuthService.recordFailedAttempt: the maps, the log and the returned count
recordFailedAttempt(fa, bu, lg, t, username) ==
    LET attempts == MapGetOr(fa, username, 0) + 1
    IN  IF attempts >= MAX_ATTEMPTS
        THEN [fa |-> MapSet(fa, username, attempts),
              bu |-> MapSet(bu, username, t + BLOCK_DURATION),
              lg |-> logEvent(lg, "ACCOUNT_BLOCKED", username, t),
              st |-> saveState(MapSet(fa, username, attempts),
                               MapSet(bu, username, t + BLOCK_DURATION)),
              attempts |-> attempts]
        ELSE [fa |-> MapSet(fa, username, attempts),
              bu |-> bu,
              lg |-> logEvent(lg, "LOGIN_FAILED", username, t),
              st |-> saveState(MapSet(fa, username, attempts), bu),
              attempts |-> attempts]

\* variant of resetFailedAttempts that forgets the lock but keeps the count
resetFailedAttemptsKeepCount(fa, bu, username) ==
    [fa |-> fa, bu |-> MapDelete(bu, username),
     st |-> saveState(fa, MapDelete(bu, username))]

\* AuthService.resetFailedAttempts
resetFailedAttempts(fa, bu, username) ==
    [fa |-> MapDelete(fa, username), bu |-> MapDelete(bu, username),
     st |-> saveState(MapDelete(fa, username), MapDelete(bu, username))]

\* mockLogin: the table of valid users and the credential test
validUsers ==
    [u \in {"admin", "supervisor", "usuario1"} |->
        CASE u = "admin" -> "admin123"
          [] u = "supervisor" -> "supervisor123"
          [] u = "usuario1" -> "contrasena123"]

mockAccepts(username, password) ==
    username \in DOMAIN validUsers /\ validUsers[username] = password

----------------------------------------------------------------------------
(* useAuth: one record per component instance *)

Unmounted ==
    [mounted |-> FALSE, isAuthenticated |-> FALSE, username |-> NULL,
     isLoading |-> FALSE, interval |-> None]

\* useState initialisers followed by the first run of the inactivity effect
MountHook(tok, user, t) ==
    [mounted |-> TRUE, isAuthenticated |-> Truthy(tok), username |-> user,
     isLoading |-> FALSE,
     interval |-> IF Truthy(tok) THEN Some(t + POLL_INTERVAL) ELSE None]

\* ProtectedRoute lets its children render only for an authenticated visitor
ProtectedRouteAllows(tok) == Truthy(tok)

\* navigate(target): the route and the mounted components afterwards.
\* "/" renders Index (with its Header) behind ProtectedRoute, "/login"
\* renders Login.  Navigating to the current location mounts nothing.
Navigate(target, tok, user, t, rt, hk) ==
    IF target = rt
    THEN [route |-> rt, hooks |-> hk, loginReplaced |-> FALSE]
    ELSE IF target = "/" /\ ProtectedRouteAllows(tok)
    THEN [route |-> "/",
          hooks |-> [Login |-> Unmounted, Header |-> MountHook(tok, user, t)],
          loginReplaced |-> TRUE]
    ELSE [route |-> "/login",
          hooks |-> [Login |-> MountHook(tok, user, t), Header |-> Unmounted],
          loginReplaced |-> TRUE]

\* the success path of login stores a session while logout() calls are
\* suspended: each of them will resume over a session newer than the one it
\* was called to end
SessionReplaced(pl) == [i \in 1..Len(pl) |-> [pl[i] EXCEPT !.newer = TRUE]]

\* setState calls of a login() whose component is gone are no-ops
Stale(pl) == [i \in 1..Len(pl) |-> [pl[i] EXCEPT !.live = FALSE]]

RemoveAt(s, k) == [i \in 1..(Len(s) - 1) |-> IF i < k THEN s[i] ELSE s[i + 1]]

\* Login.tsx: the effect that leaves the login page when already authenticated
RedirectPending ==
    route = "/login" /\ hooks["Login"].mounted /\ hooks["Login"].isAuthenticated

\* the environment (visitor, network) acts at this instant
InputTime == (now - StartTime) \in InputOffsets

\* kinds: for a logout, the kinds of the logout calls that were in flight
\* together with it (its own included)
NoResult ==
    [op |-> "none", username |-> NULL, outcome |-> "none",
     remainingAttempts |-> 0, minutes |-> 0, jwtToken |-> NULL, kinds |-> {}]

Result(op, username, outcome, remaining, minutes, tok) ==
    [op |-> op, username |-> username, outcome |-> outcome,
     remainingAttempts |-> remaining, minutes |-> minutes, jwtToken |-> tok,
     kinds |-> {}]

----------------------------------------------------------------------------
(* Initial state: a fresh browser profile opened on the login page *)

\* the constructor reads the two maps back from localStorage
\* no template call has been made
NoTplResult == [op |-> "none", outcome |-> "none"]

InitProfile(storedLogs, storedAttempts, storedBlock, sync) ==
    /\ now = StartTime
    /\ useMock \in (IF sync THEN {FALSE} ELSE BOOLEAN)
    /\ backendSync = sync
    /\ storage = [attempts |-> IF storedAttempts = EmptyMap THEN None
                               ELSE Some(ToEntries(storedAttempts)),
                  block |-> IF storedBlock = EmptyMap THEN None
                            ELSE Some(ToEntries(storedBlock))]
    /\ failedAttempts = loadState(storage.attempts)
    /\ blockUntil = loadState(storage.block)
    /\ token = NULL
    /\ authUsername = NULL
    /\ lastActivity = None
    /\ logs = storedLogs
    /\ recorded = 0
    /\ pendingLogin = <<>>
    /\ pendingLogout = <<>>
    /\ result = NoResult
    /\ route = "/login"
    /\ hooks = [Login |-> MountHook(NULL, NULL, StartTime), Header |-> Unmounted]
    /\ lastTracked = None
    /\ templates = <<>>
    /\ tplPending = None
    /\ tplResult = NoTplResult
    /\ regexLastIndex = 0

InitWith(storedLogs) == InitProfile(storedLogs, EmptyMap, EmptyMap, FALSE)

Init == InitWith(<<>>)

\* a profile whose audit log already holds the events of earlier sessions
StoredLogs ==
    [i \in 1..StoredLen |->
        Event(IF i % 2 = 1 THEN "LOGIN_SUCCESS" ELSE "LOGOUT", "supervisor", 0)]

InitStored == InitWith(StoredLogs)

----------------------------------------------------------------------------
(* The clock.  Interval timers fire when due and effects are flushed       *)
(* before time passes.                                                     *)

Advance ==
    /\ now + TimeStep <= MaxNow
    /\ ~RedirectPending
    /\ \A i \in Instances :
          hooks[i].interval # None => hooks[i].interval[1] >= now + TimeStep
    /\ now' = now + TimeStep
    /\ result' = NoResult
    /\ UNCHANGED <<cfgVars, tplVars, svcVars, sessVars, logVars, pendingLogin,
                   pendingLogout, uiVars, lastTracked>>

----------------------------------------------------------------------------
(* useAuth.login -> AuthService.login, up to its first await *)

\* variant of LoginBegin that issues the request without consulting isBlocked
LoginBeginUnchecked(username, password) ==
    /\ InputTime
    /\ route = "/login"
    /\ hooks["Login"].mounted
    /\ ~hooks["Login"].isLoading
    /\ ~RedirectPending
    /\ Len(pendingLogin) < MaxPendingLogin
    /\ pendingLogin' = Append(pendingLogin,
          [username |-> username, password |-> password, live |-> TRUE])
    /\ hooks' = [hooks EXCEPT !["Login"].isLoading = TRUE]
    /\ result' = NoResult
    /\ UNCHANGED <<now, cfgVars, tplVars, svcVars, sessVars, logVars, pendingLogout,
                   route, lastTracked>>

LoginBegin(username, password) ==
    /\ InputTime
    /\ route = "/login"
    /\ hooks["Login"].mounted
    /\ ~hooks["Login"].isLoading
    /\ ~RedirectPending
    /\ Len(pendingLogin) < MaxPendingLogin
    /\ LET m == isBlockedMaps(failedAttempts, blockUntil, now, username)
       IN  /\ failedAttempts' = m.fa
           /\ blockUntil' = m.bu
           /\ storage' = m.st
           /\ IF isBlocked(blockUntil, now, username)
              THEN /\ result' = Result("login", username, "blocked", 0,
                          CeilMinutes(getBlockTimeRemaining(m.bu, now, username)),
                          NULL)
                   /\ UNCHANGED <<pendingLogin, hooks>>
              ELSE /\ pendingLogin' = Append(pendingLogin,
                          [username |-> username, password |-> password,
                           live |-> TRUE])
                   /\ hooks' = [hooks EXCEPT !["Login"].isLoading = TRUE]
                   /\ result' = NoResult
    /\ UNCHANGED <<now, cfgVars, tplVars, sessVars, logVars, pendingLogout, route,
                   lastTracked>>

----------------------------------------------------------------------------
(* AuthService.login after its await, and what useAuth.login and           *)
(* Login.handleSubmit do with the outcome                                  *)

\* finally { setIsLoading(false) } of the instance that issued the call
LoadingDone(hk, req) ==
    IF req.live THEN [hk EXCEPT !["Login"].isLoading = FALSE] ELSE hk

\* variant of the success path that forgets to stamp last_activity
LoginSucceedsStaleActivity(k, jwt) ==
    LET req == pendingLogin[k]
        r   == resetFailedAttempts(failedAttempts, blockUntil, req.username)
        hk1 == IF req.live
               THEN [hooks EXCEPT !["Login"] =
                        [mounted |-> TRUE, isAuthenticated |-> TRUE,
                         username |-> req.username, isLoading |-> FALSE,
                         interval |-> Some(now + POLL_INTERVAL)]]
               ELSE hooks
        nav == Navigate("/", jwt, req.username, now, route, hk1)
        rest == RemoveAt(pendingLogin, k)
    IN  /\ recorded < MaxEvents
        /\ failedAttempts' = r.fa
        /\ blockUntil' = r.bu
        /\ storage' = r.st
        /\ token' = jwt
        /\ authUsername' = req.username
        /\ UNCHANGED lastActivity
        /\ logs' = logEvent(logs, "LOGIN_SUCCESS", req.username, now)
        /\ recorded' = recorded + 1
        /\ pendingLogin' = IF nav.loginReplaced THEN Stale(rest) ELSE rest
        /\ result' = Result("login", req.username, "ok", 0, 0, jwt)
        /\ route' = nav.route
        /\ hooks' = nav.hooks
        /\ lastTracked' = Some(now)
        /\ pendingLogout' = SessionReplaced(pendingLogout)
        /\ UNCHANGED <<now, cfgVars, tplVars>>

\* credentials accepted: resetFailedAttempts, storeToken, auth_username,
\* last_activity, LOGIN_SUCCESS; then setIsAuthenticated(true),
\* setUsername and navigate('/')
LoginSucceeds(k, jwt) ==
    LET req == pendingLogin[k]
        r   == resetFailedAttempts(failedAttempts, blockUntil, req.username)
        hk1 == IF req.live
               THEN [hooks EXCEPT !["Login"] =
                        [mounted |-> TRUE, isAuthenticated |-> TRUE,
                         username |-> req.username, isLoading |-> FALSE,
                         interval |-> Some(now + POLL_INTERVAL)]]
               ELSE hooks
        nav == Navigate("/", jwt, req.username, now, route, hk1)
        rest == RemoveAt(pendingLogin, k)
    IN  /\ recorded < MaxEvents
        /\ failedAttempts' = r.fa
        /\ blockUntil' = r.bu
        /\ storage' = r.st
        /\ token' = jwt
        /\ authUsername' = req.username
        /\ lastActivity' = Some(now)
        /\ logs' = logEvent(logs, "LOGIN_SUCCESS", req.username, now)
        /\ recorded' = recorded + 1
        /\ pendingLogin' = IF nav.loginReplaced THEN Stale(rest) ELSE rest
        /\ result' = Result("login", req.username, "ok", 0, 0, jwt)
        /\ route' = nav.route
        /\ hooks' = nav.hooks
        /\ lastTracked' = Some(now)
        /\ pendingLogout' = SessionReplaced(pendingLogout)
        /\ UNCHANGED <<now, cfgVars, tplVars>>

\* credentials rejected: recordFailedAttempt and the AuthError thrown
LoginRejected(k) ==
    LET req == pendingLogin[k]
        rec == recordFailedAttempt(failedAttempts, blockUntil, logs, now,
                                   req.username)
        remaining == MAX_ATTEMPTS - rec.attempts
    IN  /\ recorded < MaxEvents
        /\ failedAttempts' = rec.fa
        /\ blockUntil' = rec.bu
        /\ storage' = rec.st
        /\ logs' = rec.lg
        /\ recorded' = recorded + 1
        /\ pendingLogin' = RemoveAt(pendingLogin, k)
        /\ result' = IF remaining > 0
                     THEN Result("login", req.username, "invalid", remaining,
                                 0, NULL)
                     ELSE Result("login", req.username, "locked", 0, 0, NULL)
        /\ hooks' = LoadingDone(hooks, req)
        /\ UNCHANGED <<now, cfgVars, tplVars, sessVars, pendingLogout, route,
                       lastTracked>>

\* an Error that carries a message is rethrown by the catch block as it is
LoginRethrows(k, outcome) ==
    LET req == pendingLogin[k]
    IN  /\ pendingLogin' = RemoveAt(pendingLogin, k)
        /\ result' = Result("login", req.username, outcome,
                            getRemainingAttempts(failedAttempts, req.username),
                            0, NULL)
        /\ hooks' = LoadingDone(hooks, req)
        /\ UNCHANGED <<now, cfgVars, tplVars, svcVars, sessVars, logVars,
                       pendingLogout, route, lastTracked>>

\* a thrown value without a message: recordFailedAttempt, connection error
LoginConnectionError(k) ==
    LET req == pendingLogin[k]
        rec == recordFailedAttempt(failedAttempts, blockUntil, logs, now,
                                   req.username)
    IN  /\ recorded < MaxEvents
        /\ failedAttempts' = rec.fa
        /\ blockUntil' = rec.bu
        /\ storage' = rec.st
        /\ logs' = rec.lg
        /\ recorded' = recorded + 1
        /\ pendingLogin' = RemoveAt(pendingLogin, k)
        /\ result' = Result("login", req.username, "network",
                            getRemainingAttempts(rec.fa, req.username), 0, NULL)
        /\ hooks' = LoadingDone(hooks, req)
        /\ UNCHANGED <<now, cfgVars, tplVars, sessVars, pendingLogout, route,
                       lastTracked>>

\* mockLogin once its 500 ms timer has fired
MockLoginComplete(k) ==
    /\ InputTime
    /\ useMock
    /\ k \in 1..Len(pendingLogin)
    /\ IF mockAccepts(pendingLogin[k].username, pendingLogin[k].password)
       THEN LoginSucceeds(k, "mock_jwt_token")
       ELSE LoginRejected(k)

\* what the remote endpoint can answer to POST /auth/login
Responses ==
    {"ok", "ok_no_token", "rejected", "rejected_remaining", "fetch_error",
     "abort_no_message"}

\* errorData.remainingAttempts of a "rejected_remaining" response
BackendRemaining == {0, 1, 2}

\* second AuthService: the count is taken from the backend's answer, the
\* lock is set when nothing remains, and no audit event is written
LoginRejectedSync(k, rem) ==
    LET req == pendingLogin[k]
    IN  /\ failedAttempts' = MapSet(failedAttempts, req.username,
                                    MAX_ATTEMPTS - rem)
        /\ blockUntil' = IF rem > 0 THEN blockUntil
                         ELSE MapSet(blockUntil, req.username,
                                     now + BLOCK_DURATION)
        /\ storage' = saveState(failedAttempts', blockUntil')
        /\ pendingLogin' = RemoveAt(pendingLogin, k)
        /\ result' = IF rem > 0
                     THEN Result("login", req.username, "invalid", rem, 0, NULL)
                     ELSE Result("login", req.username, "locked", 0, 0, NULL)
        /\ hooks' = LoadingDone(hooks, req)
        /\ UNCHANGED <<now, cfgVars, tplVars, sessVars, logVars, pendingLogout, route,
                       lastTracked>>

\* variant of the remote login that stores whatever jwtToken the response has
RemoteLoginCompleteAnyToken(k, resp, rem) ==
    /\ InputTime
    /\ ~useMock
    /\ k \in 1..Len(pendingLogin)
    /\ resp # "rejected_remaining" => rem = 0
    /\ CASE resp = "ok" -> LoginSucceeds(k, "jwt_token")
         [] resp = "ok_no_token" -> LoginSucceeds(k, "")
         [] resp = "rejected" -> LoginRejected(k)
         [] resp = "rejected_remaining" ->
                IF backendSync THEN LoginRejectedSync(k, rem)
                ELSE LoginRejected(k)
         [] resp = "fetch_error" -> LoginRethrows(k, "fetch_error")
         [] resp = "abort_no_message" -> LoginConnectionError(k)

\* the first AuthService refuses a 2xx answer without jwtToken and ignores
\* errorData.remainingAttempts; the second stores String(data.token) as it
\* comes and follows errorData.remainingAttempts when it is defined
RemoteLoginComplete(k, resp, rem) ==
    /\ InputTime
    /\ ~useMock
    /\ k \in 1..Len(pendingLogin)
    /\ resp # "rejected_remaining" => rem = 0
    /\ CASE resp = "ok" -> LoginSucceeds(k, "jwt_token")
         [] resp = "ok_no_token" ->
                IF backendSync THEN LoginSucceeds(k, "undefined")
                ELSE LoginRethrows(k, "no_token")
         [] resp = "rejected" -> LoginRejected(k)
         [] resp = "rejected_remaining" ->
                IF backendSync THEN LoginRejectedSync(k, rem)
                ELSE LoginRejected(k)
         [] resp = "fetch_error" -> LoginRethrows(k, "fetch_error")
         [] resp = "abort_no_message" -> LoginConnectionError(k)

----------------------------------------------------------------------------
(* AuthService.logout / logoutByInactivity *)

\* username || localStorage.getItem('auth_username') || 'unknown'
LogUser(username) == OrElse(username, OrElse(authUsername, "unknown"))

\* what the remote endpoint can answer to POST /auth/logout
LogoutResponses == {"200", "401", "403", "500", "throws"}

\* authFetch: the token left in storage once the response has arrived
authFetchToken(tok, status) ==
    IF status = "401" \/ status = "403" THEN NULL ELSE tok

\* a logout() call reaches `await authFetch`; the calls already in flight
\* now overlap with it
StartLogout(pl, user, kind) ==
    LET inFlight == {pl[i].kind : i \in 1..Len(pl)}
    IN  Append([i \in 1..Len(pl) |->
                    [pl[i] EXCEPT !.others = pl[i].others \cup {kind}]],
               [user |-> user, kind |-> kind, others |-> inFlight,
                newer |-> FALSE])

\* Header button -> useAuth.logout: AuthService.logout runs up to its await
\* (the second AuthService has none and clears the storage at once), then
\* setIsAuthenticated(false), setUsername(null), navigate('/login').
\* The click then reaches the window listener of the instance, which is
\* detached only when the effect is cleaned up after the render.
HookLogout ==
    /\ InputTime
    /\ route = "/"
    /\ hooks["Header"].mounted
    /\ LET user == LogUser(hooks["Header"].username)
           hk1  == [hooks EXCEPT !["Header"].isAuthenticated = FALSE,
                                 !["Header"].username = NULL,
                                 !["Header"].interval = None]
           tok1 == IF backendSync THEN NULL ELSE token
           usr1 == IF backendSync THEN NULL ELSE authUsername
           nav  == Navigate("/login", tok1, usr1, now, route, hk1)
       IN  /\ IF backendSync
              THEN /\ recorded < MaxEvents
                   /\ logs' = logEvent(logs, "LOGOUT", user, now)
                   /\ recorded' = recorded + 1
                   /\ UNCHANGED pendingLogout
              ELSE /\ Len(pendingLogout) < MaxPendingLogout
                   /\ pendingLogout' = StartLogout(pendingLogout, user, "manual")
                   /\ UNCHANGED logVars
           /\ token' = tok1
           /\ authUsername' = usr1
           /\ result' = NoResult
           /\ route' = nav.route
           /\ hooks' = nav.hooks
           /\ pendingLogin' = IF nav.loginReplaced THEN Stale(pendingLogin)
                              ELSE pendingLogin
    /\ IF hooks["Header"].interval # None
       THEN lastActivity' = Some(now) /\ lastTracked' = Some(now)
       ELSE /\ lastActivity' = IF backendSync THEN None ELSE lastActivity
            /\ UNCHANGED lastTracked
    /\ UNCHANGED <<now, cfgVars, tplVars, svcVars>>

\* variant of logout whose clearing fails when the session is already gone
LogoutCompleteOnce(k, status) ==
    /\ InputTime
    /\ k \in 1..Len(pendingLogout)
    /\ recorded < MaxEvents
    /\ IF token = NULL /\ authUsername = NULL
       THEN /\ result' = [Result("logout", pendingLogout[k].user, "rejected",
                                 0, 0, NULL)
                             EXCEPT !.kinds = {pendingLogout[k].kind}
                                        \cup pendingLogout[k].others]
            /\ UNCHANGED <<sessVars, logVars>>
       ELSE /\ token' = NULL
            /\ authUsername' = NULL
            /\ lastActivity' = None
            /\ logs' = logEvent(logs, "LOGOUT", pendingLogout[k].user, now)
            /\ recorded' = recorded + 1
            /\ result' = [Result("logout", pendingLogout[k].user, "resolved",
                                 0, 0, NULL)
                             EXCEPT !.kinds = {pendingLogout[k].kind}
                                        \cup pendingLogout[k].others]
    /\ pendingLogout' = RemoveAt(pendingLogout, k)
    /\ UNCHANGED <<now, cfgVars, tplVars, svcVars, pendingLogin, uiVars, lastTracked>>

\* variant of logout without the try/catch around the revocation call
LogoutCompletePropagates(k, status) ==
    /\ InputTime
    /\ k \in 1..Len(pendingLogout)
    /\ recorded < MaxEvents
    /\ IF status = "throws"
       THEN /\ result' = Result("logout", pendingLogout[k].user, "rejected",
                                0, 0, NULL)
            /\ UNCHANGED <<sessVars, logVars>>
       ELSE /\ token' = NULL
            /\ authUsername' = NULL
            /\ lastActivity' = None
            /\ logs' = logEvent(logs, "LOGOUT", pendingLogout[k].user, now)
            /\ recorded' = recorded + 1
            /\ result' = [Result("logout", pendingLogout[k].user, "resolved",
                                 0, 0, NULL)
                             EXCEPT !.kinds = {pendingLogout[k].kind}
                                        \cup pendingLogout[k].others]
    /\ pendingLogout' = RemoveAt(pendingLogout, k)
    /\ UNCHANGED <<now, cfgVars, tplVars, svcVars, pendingLogin, uiVars, lastTracked>>

\* AuthService.logout after `await authFetch`: whatever the response was,
\* removeToken, remove auth_username and last_activity, LOGOUT
LogoutComplete(k, status) ==
    /\ InputTime
    /\ k \in 1..Len(pendingLogout)
    /\ recorded < MaxEvents
    /\ LET afterFetch == authFetchToken(token, status)
       IN  token' = IF afterFetch = NULL THEN afterFetch ELSE NULL
    /\ authUsername' = NULL
    /\ lastActivity' = None
    /\ logs' = logEvent(logs, "LOGOUT", pendingLogout[k].user, now)
    /\ recorded' = recorded + 1
    /\ pendingLogout' = RemoveAt(pendingLogout, k)
    /\ result' = [Result("logout", pendingLogout[k].user, "resolved", 0, 0, NULL)
                    EXCEPT !.kinds = {pendingLogout[k].kind}
                               \cup pendingLogout[k].others]
    /\ UNCHANGED <<now, cfgVars, tplVars, svcVars, pendingLogin, uiVars, lastTracked>>

----------------------------------------------------------------------------
(* useAuth: the inactivity effect *)

\* checkInactivity, run by setInterval every POLL_INTERVAL.  On expiry
\* logoutByInactivity records SESSION_EXPIRED and starts logout(); in the
\* second AuthService logout() is synchronous and its LOGOUT event comes
\* first.
PollTick(i) ==
    /\ hooks[i].mounted
    /\ hooks[i].interval = Some(now)
    /\ IF now - getLastActivity > INACTIVITY_TIMEOUT
       THEN LET user == LogUser(hooks[i].username)
                hk1  == [hooks EXCEPT ![i].isAuthenticated = FALSE,
                                      ![i].username = NULL,
                                      ![i].interval = None]
                tok1 == IF backendSync THEN NULL ELSE token
                usr1 == IF backendSync THEN NULL ELSE authUsername
                nav  == Navigate("/login", tok1, usr1, now, route, hk1)
            IN  /\ IF backendSync
                   THEN /\ recorded + 2 <= MaxEvents
                        /\ logs' = logEvent(logEvent(logs, "LOGOUT", user, now),
                                            "SESSION_EXPIRED", user, now)
                        /\ recorded' = recorded + 2
                        /\ lastActivity' = None
                        /\ UNCHANGED pendingLogout
                   ELSE /\ recorded < MaxEvents
                        /\ Len(pendingLogout) < MaxPendingLogout
                        /\ pendingLogout' =
                              StartLogout(pendingLogout, user, "inactivity")
                        /\ logs' = logEvent(logs, "SESSION_EXPIRED", user, now)
                        /\ recorded' = recorded + 1
                        /\ UNCHANGED lastActivity
                /\ token' = tok1
                /\ authUsername' = usr1
                /\ result' = NoResult
                /\ route' = nav.route
                /\ hooks' = nav.hooks
                /\ pendingLogin' = IF nav.loginReplaced THEN Stale(pendingLogin)
                                   ELSE pendingLogin
       ELSE /\ hooks' = [hooks EXCEPT ![i].interval = Some(now + POLL_INTERVAL)]
            /\ result' = NoResult
            /\ UNCHANGED <<sessVars, logVars, pendingLogin, pendingLogout, route>>
    /\ UNCHANGED <<now, cfgVars, tplVars, svcVars, lastTracked>>

\* a page behind ProtectedRoute calls authFetch and the answer arrives:
\* on 401 / 403 removeToken() runs.  The second AuthService keeps its
\* token under another storage key, which removeToken() does not touch.
ApiStatuses == {"200", "401", "403"}

AuthFetchComplete(status) ==
    /\ InputTime
    /\ route = "/"
    /\ hooks["Header"].mounted
    /\ Truthy(token)
    /\ token' = IF backendSync THEN token ELSE authFetchToken(token, status)
    /\ result' = Result("authFetch", NULL, status, 0, 0, NULL)
    /\ UNCHANGED <<now, cfgVars, tplVars, svcVars, authUsername, lastActivity, logVars,
                   pendingLogin, pendingLogout, uiVars, lastTracked>>

\* click / keypress / scroll / mousemove while some instance listens
Interaction ==
    /\ InputTime
    /\ \E i \in Instances : hooks[i].mounted /\ hooks[i].interval # None
    /\ ~RedirectPending
    /\ lastActivity' = Some(now)
    /\ lastTracked' = Some(now)
    /\ result' = NoResult
    /\ UNCHANGED <<now, cfgVars, tplVars, svcVars, token, authUsername, logVars,
                   pendingLogin, pendingLogout, uiVars>>

\* Login.tsx: useEffect(() => { if (isAuthenticated) navigate('/') })
LoginRedirectEffect ==
    /\ RedirectPending
    /\ LET nav == Navigate("/", token, authUsername, now, route, hooks)
       IN  /\ route' = nav.route
           /\ hooks' = nav.hooks
           /\ pendingLogin' = IF nav.loginReplaced THEN Stale(pendingLogin)
                              ELSE pendingLogin
    /\ result' = NoResult
    /\ UNCHANGED <<now, cfgVars, tplVars, svcVars, sessVars, logVars, pendingLogout,
                   lastTracked>>

\* the visitor leaves /login through the browser history and comes back:
\* the Route element is rendered anew, calls in flight keep running
RevisitLogin ==
    /\ InputTime
    /\ route = "/login"
    /\ hooks["Login"].isLoading
    /\ hooks' = [hooks EXCEPT !["Login"] = MountHook(token, authUsername, now)]
    /\ pendingLogin' = Stale(pendingLogin)
    /\ result' = NoResult
    /\ UNCHANGED <<now, cfgVars, tplVars, svcVars, sessVars, logVars, pendingLogout,
                   route, lastTracked>>

----------------------------------------------------------------------------

Next ==
    \/ Advance
    \/ \E c \in Credentials : LoginBegin(c[1], c[2])
    \/ \E k \in 1..MaxPendingLogin : MockLoginComplete(k)
    \/ \E k \in 1..MaxPendingLogin, r \in Responses, rem \in BackendRemaining :
            RemoteLoginComplete(k, r, rem)
    \/ HookLogout
    \/ \E k \in 1..MaxPendingLogout, s \in LogoutResponses : LogoutComplete(k, s)
    \/ \E i \in Instances : PollTick(i)
    \/ Interaction
    \/ LoginRedirectEffect
    \/ RevisitLogin

Spec == Init /\ [][Next]_vars

\* the same program started on a profile with a nearly full audit log
SpecStored == InitStored /\ [][Next]_vars

\* a visitor who stays on one rendering of the login page (no login is
\* issued twice at a time) and whose pages call the API through authFetch
NextApi ==
    \/ Advance
    \/ \E c \in Credentials : LoginBegin(c[1], c[2])
    \/ \E k \in 1..MaxPendingLogin : MockLoginComplete(k)
    \/ \E k \in 1..MaxPendingLogin, r \in Responses, rem \in BackendRemaining :
            RemoteLoginComplete(k, r, rem)
    \/ HookLogout
    \/ \E k \in 1..MaxPendingLogout, s \in LogoutResponses : LogoutComplete(k, s)
    \/ \E i \in Instances : PollTick(i)
    \/ \E s \in ApiStatuses : AuthFetchComplete(s)
    \/ Interaction
    \/ LoginRedirectEffect

\* a profile reloaded while 'admin' is locked: three failures were recorded
\* by an earlier page load and the lock has between 1 ms and BLOCK_DURATION
\* left to run
LockRemainders == {1, 840001, 900000}

LockedLogs ==
    <<Event("LOGIN_FAILED", "admin", 0), Event("LOGIN_FAILED", "admin", 0),
      Event("ACCOUNT_BLOCKED", "admin", 0)>>

InitLocked ==
    \E d \in LockRemainders :
        InitProfile(LockedLogs, MapSet(EmptyMap, "admin", MAX_ATTEMPTS),
                    MapSet(EmptyMap, "admin", StartTime + d), FALSE)

SpecLocked == InitLocked /\ [][Next]_vars

SpecApi == Init /\ [][NextApi]_vars

\* localStorage.setItem throws (quota exceeded) while the k-th pending
\* login completes.  Accepted: resetFailedAttempts has changed the Maps when
\* saveState throws.  Rejected: recordFailedAttempt has changed the Maps
\* when logEvent throws, and saveState is not reached.  Neither function
\* catches, and login's catch block rethrows an error that has a message.
LoginCompleteStorageFull(k, accepted) ==
    /\ InputTime
    /\ k \in 1..Len(pendingLogin)
    /\ useMock => (accepted = mockAccepts(pendingLogin[k].username,
                                          pendingLogin[k].password))
    /\ LET req == pendingLogin[k]
           attempts == MapGetOr(failedAttempts, req.username, 0) + 1
       IN  /\ failedAttempts' =
                 IF accepted THEN MapDelete(failedAttempts, req.username)
                 ELSE MapSet(failedAttempts, req.username, attempts)
           /\ blockUntil' =
                 IF accepted THEN MapDelete(blockUntil, req.username)
                 ELSE IF attempts >= MAX_ATTEMPTS
                 THEN MapSet(blockUntil, req.username, now + BLOCK_DURATION)
                 ELSE blockUntil
           /\ pendingLogin' = RemoveAt(pendingLogin, k)
           /\ result' = Result("login", req.username, "storage_error", 0, 0,
                               NULL)
           /\ hooks' = LoadingDone(hooks, req)
    /\ UNCHANGED <<now, cfgVars, tplVars, storage, sessVars, logVars, pendingLogout,
                   route, lastTracked>>

\* a profile whose localStorage is at its quota: a write may throw
NextQuota ==
    \/ Advance
    \/ \E c \in Credentials : LoginBegin(c[1], c[2])
    \/ \E k \in 1..MaxPendingLogin : MockLoginComplete(k)
    \/ \E k \in 1..MaxPendingLogin, r \in Responses, rem \in BackendRemaining :
            RemoteLoginComplete(k, r, rem)
    \/ \E k \in 1..MaxPendingLogin, a \in BOOLEAN :
            LoginCompleteStorageFull(k, a)

SpecQuota == Init /\ [][NextQuota]_vars

\* the build whose AuthService synchronises the count with the backend: it
\* has no mock mode, logout() is synchronous, and the token is not the one
\* that authFetch removes.  The visitor stays on one rendering of the login
\* page, so that at most one login is in flight.
InitSync == InitProfile(<<>>, EmptyMap, EmptyMap, TRUE)

NextSync ==
    \/ Advance
    \/ \E c \in Credentials : LoginBegin(c[1], c[2])
    \/ \E k \in 1..MaxPendingLogin, r \in Responses, rem \in BackendRemaining :
            RemoteLoginComplete(k, r, rem)
    \/ HookLogout
    \/ \E i \in Instances : PollTick(i)
    \/ Interaction

SpecSync == InitSync /\ [][NextSync]_vars

----------------------------------------------------------------------------
(* Properties *)

Last(s) == s[Len(s)]

LogCount(username, eventType) ==
    Cardinality({i \in 1..Len(logs) :
        logs[i].usuario = username /\ logs[i].tipoEvento = eventType})

\* the call that has just returned is a login of `username` that the
\* credential check rejected
JustRejected(username) ==
    /\ result.op = "login"
    /\ result.username = username
    /\ result.outcome \in {"invalid", "locked"}

\* the audit log holds exactly n events, all of them failed logins of username
OnlyFailuresOf(username, n) ==
    /\ recorded = n
    /\ Len(logs) = n
    /\ \A i \in 1..n :
          /\ logs[i].usuario = username
          /\ logs[i].tipoEvento \in {"LOGIN_FAILED", "ACCOUNT_BLOCKED"}

C2_BlockedNeverReachesEndpoint ==
    [][ /\ Len(pendingLogin') > Len(pendingLogin) =>
              ~isBlocked(blockUntil, now, Last(pendingLogin').username)
        /\ \A c \in Credentials :
              (LoginBegin(c[1], c[2]) /\ isBlocked(blockUntil, now, c[1])) =>
                  /\ pendingLogin' = pendingLogin
                  /\ result'.outcome = "blocked"
                  /\ result'.username = c[1]
      ]_vars

C2_Witness ==
    /\ result.op = "login"
    /\ result.outcome = "blocked"
    /\ isBlocked(blockUntil, now, result.username)
    /\ pendingLogin = <<>>

(* C3: in the state a successful login of a username returns in, the       *)
(* username has no failed-attempt count (it reads as zero) and no lockout  *)
(* timestamp, whatever the count was before.                               *)
C3_SuccessResetsAttempts ==
    (result.op = "login" /\ result.outcome = "ok") =>
        /\ result.username \notin DOMAIN failedAttempts
        /\ result.username \notin DOMAIN blockUntil
        /\ getRemainingAttempts(failedAttempts, result.username) = MAX_ATTEMPTS

\* a success that follows two failures of the same username
C3_Witness ==
    /\ result.op = "login"
    /\ result.outcome = "ok"
    /\ recorded = 3
    /\ LogCount(result.username, "LOGIN_FAILED") = 2
    /\ logs[3] = Event("LOGIN_SUCCESS", result.username, now)
    /\ result.username \notin DOMAIN failedAttempts

(* C4: once a username is locked at time t the lock lasts exactly           *)
(* BLOCK_DURATION: a lock is created with blockUntil = t + BLOCK_DURATION, *)
(* no later step removes or moves it while it is active, and a login is    *)
(* rejected as blocked exactly when it begins before blockUntil.           *)
C4_LockWindowFixed ==
    [][ \A u \in Usernames :
          /\ isBlocked(blockUntil, now, u) =>
                (u \in DOMAIN blockUntil' /\ blockUntil'[u] = blockUntil[u])
          /\ (u \notin DOMAIN blockUntil /\ u \in DOMAIN blockUntil') =>
                blockUntil'[u] = now + BLOCK_DURATION
          /\ \A c \in Credentials :
                (c[1] = u /\ LoginBegin(c[1], c[2])) =>
                    ((result'.outcome = "blocked")
                        <=> isBlocked(blockUntil, now, u))
      ]_vars

\* isBlocked(u) run twice in a row on the current maps
CheckedOnce(u) == isBlockedMaps(failedAttempts, blockUntil, now, u)
CheckedTwice(u) == isBlockedMaps(CheckedOnce(u).fa, CheckedOnce(u).bu, now, u)

(* C5: checking the lock status of a username at or after its expiry time  *)
(* returns false and removes both its lock and its failed-attempt count    *)
(* and nothing else; a check repeated after that, and any check of a       *)
(* username whose lock has not expired, returns the same answer and        *)
(* changes neither map.                                                    *)
C5_ExpiryCheckIdempotent ==
    /\ [](\A u \in Usernames : blockExpired(blockUntil, now, u) =>
            /\ ~isBlocked(blockUntil, now, u)
            /\ u \notin DOMAIN CheckedOnce(u).fa
            /\ u \notin DOMAIN CheckedOnce(u).bu
            /\ ~blockExpired(CheckedOnce(u).bu, now, u)
            /\ ~isBlocked(CheckedOnce(u).bu, now, u)
            /\ CheckedTwice(u).fa = CheckedOnce(u).fa
            /\ CheckedTwice(u).bu = CheckedOnce(u).bu)
    /\ [][ \A c \in Credentials : LoginBegin(c[1], c[2]) =>
            IF blockExpired(blockUntil, now, c[1])
            THEN /\ result'.outcome # "blocked"
                 /\ c[1] \notin DOMAIN failedAttempts'
                 /\ c[1] \notin DOMAIN blockUntil'
                 /\ \A v \in Usernames \ {c[1]} :
                       /\ MapGetOr(failedAttempts', v, 0)
                            = MapGetOr(failedAttempts, v, 0)
                       /\ MapGetOr(blockUntil', v, 0) = MapGetOr(blockUntil, v, 0)
            ELSE /\ failedAttempts' = failedAttempts
                 /\ blockUntil' = blockUntil
         ]_vars

\* a lock that ran out has been cleared by the check of a later login
C5_Witness ==
    \E u \in Usernames :
        /\ OnlyFailuresOf(u, 3)
        /\ logs[3].tipoEvento = "ACCOUNT_BLOCKED"
        /\ now >= StartTime + BLOCK_DURATION
        /\ u \notin DOMAIN blockUntil
        /\ u \notin DOMAIN failedAttempts
        /\ \E i \in 1..Len(pendingLogin) : pendingLogin[i].username = u

(* C6: started with at most MAX_LOGS stored entries, the audit log never   *)
(* holds more than MAX_LOGS entries; recording an event appends it, and    *)
(* when the log already held MAX_LOGS entries exactly the oldest one is    *)
(* removed to make room.                                                   *)
C6_AuditLogBounded ==
    /\ [](Len(logs) <= MAX_LOGS)
    /\ [][ recorded' # recorded =>
             /\ recorded' = recorded + 1
             /\ IF Len(logs) < MAX_LOGS
                THEN /\ Len(logs') = Len(logs) + 1
                     /\ SubSeq(logs', 1, Len(logs)) = logs
                ELSE /\ Len(logs') = MAX_LOGS
                     /\ SubSeq(logs', 1, MAX_LOGS - 1) = Tail(logs)
         ]_vars

\* the stored log was filled up and the 101st event has been recorded
C6_Witness ==
    /\ Len(logs) = MAX_LOGS
    /\ recorded > MAX_LOGS - StoredLen
    /\ logs[1] # StoredLogs[1]

\* the step records this audit event as the newest entry
Records(eventType) ==
    /\ recorded' = recorded + 1
    /\ Last(logs').tipoEvento = eventType

(* C7: with no tracked interaction, the first poll tick at which           *)
(* now - lastActivity > INACTIVITY_TIMEOUT starts the forced logout,       *)
(* records SESSION_EXPIRED and navigates to /login, and so no session is   *)
(* still stored later than INACTIVITY_TIMEOUT + POLL_INTERVAL after the    *)
(* last login or tracked interaction.                                      *)
C7_InactivityEndsSession ==
    /\ [](isAuthenticated =>
            /\ lastTracked # None
            /\ now - lastTracked[1] <= INACTIVITY_TIMEOUT + POLL_INTERVAL)
    /\ [][ \A i \in Instances :
            (PollTick(i) /\ now - getLastActivity > INACTIVITY_TIMEOUT) =>
                /\ Records("SESSION_EXPIRED")
                /\ Len(pendingLogout') = Len(pendingLogout) + 1
                /\ route' = "/login"
                /\ ~hooks'[i].isAuthenticated
         ]_vars

(* C8: the inactivity monitor expires a session only at a poll tick at     *)
(* which more than INACTIVITY_TIMEOUT has elapsed since the latest tracked *)
(* interaction (or since login when there was none): SESSION_EXPIRED is    *)
(* never recorded, and no forced logout is started, while the visitor has  *)
(* interacted within the last INACTIVITY_TIMEOUT.                          *)
C8_ExpiryOnlyAfterInactivity ==
    [][ (Records("SESSION_EXPIRED") \/ \E i \in Instances :
            (PollTick(i) /\ Len(pendingLogout') > Len(pendingLogout))) =>
            /\ lastTracked # None
            /\ now - lastTracked[1] > INACTIVITY_TIMEOUT
      ]_vars

(* C9: in every state isAuthenticated() is true exactly when a token is    *)
(* stored; it is true in the state a successful login returns in and false *)
(* in the state a logout returns in.                                       *)
C9_AuthenticatedIffToken ==
    /\ isAuthenticated <=> token # NULL
    /\ (result.op = "login" /\ result.outcome = "ok") =>
          (isAuthenticated /\ token = result.jwtToken)
    /\ result.op = "logout" => ~isAuthenticated

C9_Witness ==
    /\ result.op = "login"
    /\ result.outcome = "ok"
    /\ isAuthenticated
    /\ token = "jwt_token"

(* C10: whatever the remote revocation call does (2xx, 401/403, another    *)
(* error status, or a thrown network error) the logout resolves normally,  *)
(* leaves no token, username or last-activity in storage and records       *)
(* exactly one LOGOUT event for its user.                                  *)
C10_LogoutAlwaysClears ==
    /\ [](result.op = "logout" =>
            /\ result.outcome = "resolved"
            /\ token = NULL
            /\ authUsername = NULL
            /\ lastActivity = None
            /\ Last(logs) = Event("LOGOUT", result.username, now))
    /\ [][ \A k \in 1..MaxPendingLogout, s \in LogoutResponses :
            LogoutComplete(k, s) =>
                /\ result'.op = "logout"
                /\ result'.outcome = "resolved"
                /\ result'.username = pendingLogout[k].user
                /\ recorded' = recorded + 1
                /\ logs' = logEvent(logs, "LOGOUT", pendingLogout[k].user, now)
                /\ Len(pendingLogout') = Len(pendingLogout) - 1
         ]_vars

C10_Witness ==
    /\ result.op = "logout"
    /\ result.outcome = "resolved"
    /\ result.username = "admin"
    /\ token = NULL
    /\ LogCount("admin", "LOGOUT") = 1
    /\ LogCount("admin", "LOGIN_SUCCESS") = 1


\* step k-th pending login completes with its credentials accepted, by the
\* mock user table or by the remote endpoint (a 2xx answer with a token)
Accepted(k) ==
    \/ /\ MockLoginComplete(k)
       /\ mockAccepts(pendingLogin[k].username, pendingLogin[k].password)
    \/ \E rem \in BackendRemaining : RemoteLoginComplete(k, "ok", rem)

(* C11: every login whose credentials are accepted, by the remote endpoint *)
(* or by the mock user table, stores the token, the username and           *)
(* last_activity = now, appends exactly one LOGIN_SUCCESS event of that    *)
(* username to the audit log, and returns the stored token to the caller.  *)
C11_AcceptedLoginStoresSession ==
    [][ \A k \in 1..MaxPendingLogin : Accepted(k) =>
            /\ Truthy(token')
            /\ authUsername' = pendingLogin[k].username
            /\ lastActivity' = Some(now)
            /\ recorded' = recorded + 1
            /\ Len(logs') = Len(logs) + 1
            /\ SubSeq(logs', 1, Len(logs)) = logs
            /\ Last(logs') = Event("LOGIN_SUCCESS", pendingLogin[k].username, now)
            /\ result'.op = "login"
            /\ result'.outcome = "ok"
            /\ result'.username = pendingLogin[k].username
            /\ result'.jwtToken = token'
      ]_vars

\* an accepted login made later than the first instant of the run, so that
\* the stamp written is not the initial clock value
C11_Witness ==
    /\ result.op = "login"
    /\ result.outcome = "ok"
    /\ now > StartTime
    /\ token = result.jwtToken
    /\ authUsername = result.username
    /\ lastActivity = Some(now)
    /\ Last(logs) = Event("LOGIN_SUCCESS", result.username, now)


(* C12: after a request made through authFetch has been answered with     *)
(* HTTP 401 or 403, the local session is cleared: token, auth_username    *)
(* and last_activity are all absent from storage and isAuthenticated()    *)
(* is false.                                                               *)
C12_RejectedTokenClearsSession ==
    (result.op = "authFetch" /\ result.outcome \in {"401", "403"}) =>
        /\ token = NULL
        /\ authUsername = NULL
        /\ lastActivity = None
        /\ ~isAuthenticated


\* the call that has just returned is the third rejected login of u, the
\* one that locked it, after exactly two failures and nothing else
ThirdRejection(u) ==
    /\ OnlyFailuresOf(u, 3)
    /\ JustRejected(u)

RequestFailed ==
    \E k \in 1..MaxPendingLogin, rem \in BackendRemaining :
        \/ RemoteLoginComplete(k, "fetch_error", rem)
        \/ RemoteLoginComplete(k, "abort_no_message", rem)

(* C14: when the remote login call cannot complete (the request fails      *)
(* instead of returning a status) login fails with the connection-error    *)
(* outcome, carrying the current remaining-attempts count of the username, *)
(* and not with an invalid-credentials, blocked or any other outcome.      *)
C14_FailedRequestIsNetworkError ==
    [][ RequestFailed =>
            /\ result'.op = "login"
            /\ result'.outcome = "network"
            /\ result'.remainingAttempts
                 = getRemainingAttempts(failedAttempts', result'.username)
      ]_vars


\* a manual and an inactivity-triggered logout were in flight together
BothKinds == {"manual", "inactivity"}

(* C15: when a manual logout and an inactivity-triggered logout are in     *)
(* flight at the same time, each with its own revocation call, then        *)
(* whichever order they complete in and whatever their calls answer, each  *)
(* completion resolves and leaves token, auth_username and last_activity   *)
(* absent, and once both have completed all three are absent.              *)
C15_ConcurrentLogoutsConverge ==
    /\ []((result.op = "logout" /\ BothKinds \subseteq result.kinds) =>
            /\ result.outcome = "resolved"
            /\ token = NULL
            /\ authUsername = NULL
            /\ lastActivity = None)
    /\ [][ \A k \in 1..MaxPendingLogout, s \in LogoutResponses :
            (LogoutComplete(k, s)
                /\ BothKinds \subseteq ({pendingLogout[k].kind}
                                          \cup pendingLogout[k].others)) =>
                /\ result'.outcome = "resolved"
                /\ token' = NULL
                /\ authUsername' = NULL
                /\ lastActivity' = None
                /\ Len(pendingLogout') = Len(pendingLogout) - 1
         ]_vars

\* both logouts of the overlapping pair have completed, the second one
\* after the storage had already been cleared by the first
C15_Witness ==
    /\ result.op = "logout"
    /\ result.kinds = BothKinds
    /\ pendingLogout = <<>>
    /\ LogCount(result.username, "LOGOUT") = 2
    /\ LogCount(result.username, "SESSION_EXPIRED") = 1
    /\ LogCount(result.username, "LOGIN_SUCCESS") = 1
    /\ token = NULL
    /\ authUsername = NULL
    /\ lastActivity = None


(* C16: the polling timer and the interaction listeners of a hook instance *)
(* exist exactly while a session is active: an instance that is mounted    *)
(* while a session is stored has its timer installed, and no instance has  *)
(* a timer while no session is stored, whichever way the session ended     *)
(* (manual logout, inactivity expiry, rejected token).                     *)
C16_TimerOnlyWhileSessionActive ==
    \A i \in Instances :
        /\ hooks[i].interval # None => (hooks[i].mounted /\ isAuthenticated)
        /\ (hooks[i].mounted /\ hooks[i].isAuthenticated)
              => hooks[i].interval # None


\* the failed-attempt count of a username (0 when the Map has no entry)
Count(u) == MapGetOr(failedAttempts, u, 0)

(* C17: in every reachable state the failed-attempt count of every         *)
(* username is one of 0..MAX_ATTEMPTS, and the username has a lockout      *)
(* timestamp exactly when its count equals MAX_ATTEMPTS; also when the     *)
(* count was taken from a remainingAttempts value sent by the backend.     *)
C17_CountAndLockConsistent ==
    \A u \in Usernames :
        /\ Count(u) \in 0..MAX_ATTEMPTS
        /\ u \in DOMAIN blockUntil <=> Count(u) = MAX_ATTEMPTS


(* C18: in every state in which the lockout window of a username has       *)
(* expired (now is at or after its lockout timestamp) its failed-attempt   *)
(* count is zero and getRemainingAttempts reports MAX_ATTEMPTS for it,     *)
(* whether or not isBlocked has been called since the expiry.              *)
C18_ExpiredLockMeansZeroCount ==
    \A u \in Usernames : blockExpired(blockUntil, now, u) =>
        /\ Count(u) = 0
        /\ getRemainingAttempts(failedAttempts, u) = MAX_ATTEMPTS


(* C19: whenever a login is rejected because a lockout is active, the      *)
(* number of minutes in the error is the remaining lockout time in         *)
(* milliseconds divided by 60000 and rounded up, and it is at least 1 and  *)
(* at most 15.                                                             *)
C19_BlockedMinutesRoundedUp ==
    (result.op = "login" /\ result.outcome = "blocked") =>
        LET remaining == blockUntil[result.username] - now
        IN  /\ remaining > 0
            /\ result.minutes * 60000 >= remaining
            /\ (result.minutes - 1) * 60000 < remaining
            /\ result.minutes >= 1
            /\ result.minutes <= 15

\* a blocked login whose remaining time is not a whole number of minutes
C19_Witness ==
    /\ result.op = "login"
    /\ result.outcome = "blocked"
    /\ (blockUntil[result.username] - now) % 60000 # 0
    /\ result.minutes * 60000 > blockUntil[result.username] - now
    /\ now > StartTime


\* step: the k-th pending login completes with its credentials rejected,
\* with or without a remainingAttempts field in the error body
Rejected(k) ==
    \/ /\ MockLoginComplete(k)
       /\ ~mockAccepts(pendingLogin[k].username, pendingLogin[k].password)
    \/ \E rem \in BackendRemaining :
          \/ RemoteLoginComplete(k, "rejected", rem)
          \/ RemoteLoginComplete(k, "rejected_remaining", rem)

(* C20: every login the endpoint rejects appends exactly one audit event   *)
(* of its username, ACCOUNT_BLOCKED when the attempt locks the account and *)
(* LOGIN_FAILED otherwise, and reports MAX_ATTEMPTS minus the number of    *)
(* consecutive failures so far as remaining attempts; whether or not the   *)
(* error body carries a remainingAttempts value.                           *)
C20_RejectionLogsOneEvent ==
    [][ \A k \in 1..MaxPendingLogin : Rejected(k) =>
            LET u == pendingLogin[k].username
            IN  /\ recorded' = recorded + 1
                /\ Len(logs') = Len(logs) + 1
                /\ Last(logs').usuario = u
                /\ Last(logs').tipoEvento =
                      IF Count(u) + 1 = MAX_ATTEMPTS THEN "ACCOUNT_BLOCKED"
                      ELSE "LOGIN_FAILED"
                /\ result'.remainingAttempts = MAX_ATTEMPTS - (Count(u) + 1)
      ]_vars


----------------------------------------------------------------------------
(* lib/api.ts: the template client with localStorage fallback.  A template *)
(* is [id, name, content]; createdAt and updatedAt are left out.  A        *)
(* content is a sequence of characters: "a" stands for a character of      *)
(* [a-zA-Z0-9_], " " for any other character but a brace.                  *)

MaxTemplates == 2
MaxId == 2

TemplateIds == 1..MaxId
TemplateNames == {"Aviso", "AVISO", "Pago"}
TemplateContents ==
    { <<>>,
      <<"{", "a", "}">>,
      <<"{", "a", "}", "{", "a", "}">>,
      <<"{", " ", "}">>,
      <<"{", "{", "a", "}">> }

\* what fetch and response.json() can do
RemoteOutcomes == {"ok", "bad_body", "throws", "non2xx"}
\* the request throws, or the backend answers with a non-2xx status
RemoteFailures == {"throws", "non2xx"}

\* String.prototype.toLowerCase on the names used here
Lower(name) ==
    CASE name = "Aviso" -> "aviso"
      [] name = "AVISO" -> "aviso"
      [] name = "Pago" -> "pago"
      [] OTHER -> name

\* content.match(/\{[^}]*\}/g) || []: leftmost matches, each from a "{" to
\* the first "}" after it, scanning on behind the match
RECURSIVE BracePatterns(_, _)
BracePatterns(content, from) ==
    LET opens == {i \in from..Len(content) :
                     /\ content[i] = "{"
                     /\ \E j \in (i + 1)..Len(content) : content[j] = "}"}
    IN  IF opens = {} THEN <<>>
        ELSE LET i == CHOOSE x \in opens : \A y \in opens : x <= y
                 j == CHOOSE x \in (i + 1)..Len(content) :
                          /\ content[x] = "}"
                          /\ \A m \in (i + 1)..(x - 1) : content[m] # "}"
             IN  <<SubSeq(content, i, j)>> \o BracePatterns(content, j + 1)

\* VARIABLE_REGEX.test(pattern) for /\{[a-zA-Z0-9_]+\}/g: the search starts
\* at lastIndex; a match moves lastIndex behind itself, a failure resets it
VariableRegexTest(pattern, lastIndex) ==
    LET starts == {s \in (lastIndex + 1)..Len(pattern) :
                     /\ pattern[s] = "{"
                     /\ \E e \in (s + 2)..Len(pattern) :
                           /\ pattern[e] = "}"
                           /\ \A m \in (s + 1)..(e - 1) : pattern[m] = "a"}
    IN  IF starts = {} THEN [found |-> FALSE, lastIndex |-> 0]
        ELSE LET s == CHOOSE x \in starts : \A y \in starts : x <= y
                 e == CHOOSE x \in (s + 2)..Len(pattern) :
                          /\ pattern[x] = "}"
                          /\ \A m \in (s + 1)..(x - 1) : pattern[m] = "a"
             IN  [found |-> TRUE, lastIndex |-> e]

\* the loop of validateTemplateContent over the patterns: a pattern the
\* regex does not accept is an error when it is empty or holds a character
\* outside [a-zA-Z0-9_]
RECURSIVE ValidatePatterns(_, _, _)
ValidatePatterns(patterns, lastIndex, isValid) ==
    IF patterns = <<>> THEN [isValid |-> isValid, lastIndex |-> lastIndex]
    ELSE LET pattern == Head(patterns)
             t == VariableRegexTest(pattern, lastIndex)
             variableContent == SubSeq(pattern, 2, Len(pattern) - 1)
             error == /\ ~t.found
                      /\ \/ variableContent = <<>>
                         \/ \E m \in 1..Len(variableContent) :
                               variableContent[m] # "a"
         IN  ValidatePatterns(Tail(patterns), t.lastIndex, isValid /\ ~error)

validateTemplateContent(content, lastIndex) ==
    ValidatePatterns(BracePatterns(content, 1), lastIndex, TRUE)

\* templates.some(t => t.name.toLowerCase() === name.toLowerCase()), for
\* update with `&& t.id !== id` (exceptId 0 excludes nothing)
NameTaken(ts, name, exceptId) ==
    \E i \in 1..Len(ts) :
        Lower(ts[i].name) = Lower(name) /\ ts[i].id # exceptId

\* templates.findIndex(t => t.id === id), 0 for -1
FindIndex(ts, id) ==
    IF \E i \in 1..Len(ts) : ts[i].id = id
    THEN CHOOSE i \in 1..Len(ts) :
             ts[i].id = id /\ \A j \in 1..(i - 1) : ts[j].id # id
    ELSE 0

\* templates.filter(t => t.id !== id)
RECURSIVE FilterOut(_, _)
FilterOut(ts, id) ==
    IF ts = <<>> THEN <<>>
    ELSE IF Head(ts).id = id THEN FilterOut(Tail(ts), id)
    ELSE <<Head(ts)>> \o FilterOut(Tail(ts), id)

TplResult(op, outcome) == [op |-> op, outcome |-> outcome]

\* a template call suspended at `await fetch`
TplRequest(op, id, name, content) ==
    Some([op |-> op, id |-> id, name |-> name, content |-> content])

\* the caller awaits one template call before it issues the next
TemplateIdle == tplPending = None

\* createTemplate up to its fetch: a content that fails validation throws
\* before the request is sent
CreateTemplateBegin(name, content) ==
    LET v == validateTemplateContent(content, regexLastIndex)
    IN  /\ TemplateIdle
        /\ Len(templates) < MaxTemplates
        /\ regexLastIndex' = v.lastIndex
        /\ IF v.isValid
           THEN /\ tplPending' = TplRequest("create", 0, Some(name),
                                            Some(content))
                /\ tplResult' = NoTplResult
           ELSE /\ tplResult' = TplResult("create", "invalid_content")
                /\ UNCHANGED tplPending
        /\ UNCHANGED <<templates, authVars>>

\* createTemplate after its fetch: the backend's answer, or the fallback of
\* the catch block (generateId is Date.now() plus a random number: newId)
CreateTemplateComplete(remote, newId) ==
    /\ tplPending # None
    /\ tplPending[1].op = "create"
    /\ LET name == tplPending[1].name[1]
           content == tplPending[1].content[1]
       IN  IF remote = "ok"
           THEN /\ tplResult' = TplResult("create", "remote")
                /\ UNCHANGED templates
           ELSE IF NameTaken(templates, name, 0)
           THEN /\ tplResult' = TplResult("create", "duplicate_name")
                /\ UNCHANGED templates
           ELSE /\ tplResult' = TplResult("create", "local")
                /\ templates' = Append(templates,
                      [id |-> newId, name |-> name, content |-> content])
    /\ tplPending' = None
    /\ UNCHANGED <<regexLastIndex, authVars>>

\* the names and contents of an UpdateTemplateRequest: either may be absent
PayloadNames == {None} \cup {Some(n) : n \in TemplateNames \cup {""}}
PayloadContents == {None} \cup {Some(c) : c \in TemplateContents}

\* updateTemplate up to its fetch: a non-empty content is validated
UpdateTemplateBegin(id, name, content) ==
    LET checked == content # None /\ content[1] # <<>>
        v == IF checked
             THEN validateTemplateContent(content[1], regexLastIndex)
             ELSE [isValid |-> TRUE, lastIndex |-> regexLastIndex]
    IN  /\ TemplateIdle
        /\ regexLastIndex' = v.lastIndex
        /\ IF v.isValid
           THEN /\ tplPending' = TplRequest("update", id, name, content)
                /\ tplResult' = NoTplResult
           ELSE /\ tplResult' = TplResult("update", "invalid_content")
                /\ UNCHANGED tplPending
        /\ UNCHANGED <<templates, authVars>>

\* { ...templates[templateIndex], ...payload }
Merge(t, name, content) ==
    [id |-> t.id,
     name |-> IF name = None THEN t.name ELSE name[1],
     content |-> IF content = None THEN t.content ELSE content[1]]

\* variant of updateTemplate whose catch block rethrows
UpdateTemplateCompleteNoFallback(remote) ==
    /\ tplPending # None
    /\ tplPending[1].op = "update"
    /\ tplResult' = TplResult("update",
                              IF remote = "ok" THEN "remote" ELSE "failed")
    /\ tplPending' = None
    /\ UNCHANGED <<templates, regexLastIndex, authVars>>

\* updateTemplate after its fetch: the backend's answer, or the fallback of
\* the catch block
UpdateTemplateComplete(remote) ==
    /\ tplPending # None
    /\ tplPending[1].op = "update"
    /\ LET id == tplPending[1].id
           name == tplPending[1].name
           templateIndex == FindIndex(templates, id)
       IN  IF remote = "ok"
           THEN /\ tplResult' = TplResult("update", "remote")
                /\ UNCHANGED templates
           ELSE IF templateIndex = 0
           THEN /\ tplResult' = TplResult("update", "not_found")
                /\ UNCHANGED templates
           ELSE IF /\ name # None
                   /\ name[1] # ""
                   /\ NameTaken(templates, name[1], id)
           THEN /\ tplResult' = TplResult("update", "duplicate_name")
                /\ UNCHANGED templates
           ELSE /\ tplResult' = TplResult("update", "local")
                /\ templates' = [templates EXCEPT ![templateIndex] =
                      Merge(templates[templateIndex], name,
                            tplPending[1].content)]
    /\ tplPending' = None
    /\ UNCHANGED <<regexLastIndex, authVars>>

\* deleteTemplate up to its fetch
DeleteTemplateBegin(id) ==
    /\ TemplateIdle
    /\ tplPending' = TplRequest("delete", id, None, None)
    /\ tplResult' = NoTplResult
    /\ UNCHANGED <<templates, regexLastIndex, authVars>>

\* deleteTemplate after its fetch (no body is read): the backend's answer,
\* or the fallback of the catch block
DeleteTemplateComplete(remote) ==
    /\ tplPending # None
    /\ tplPending[1].op = "delete"
    /\ remote # "bad_body"
    /\ LET filteredTemplates == FilterOut(templates, tplPending[1].id)
       IN  IF remote = "ok"
           THEN /\ tplResult' = TplResult("delete", "remote")
                /\ UNCHANGED templates
           ELSE IF Len(filteredTemplates) = Len(templates)
           THEN /\ tplResult' = TplResult("delete", "not_found")
                /\ UNCHANGED templates
           ELSE /\ tplResult' = TplResult("delete", "local")
                /\ templates' = filteredTemplates
    /\ tplPending' = None
    /\ UNCHANGED <<regexLastIndex, authVars>>

NextTemplates ==
    \/ \E name \in TemplateNames, content \in TemplateContents :
            CreateTemplateBegin(name, content)
    \/ \E remote \in RemoteOutcomes, newId \in TemplateIds :
            CreateTemplateComplete(remote, newId)
    \/ \E id \in TemplateIds, name \in PayloadNames,
          content \in PayloadContents :
            UpdateTemplateBegin(id, name, content)
    \/ \E remote \in RemoteOutcomes : UpdateTemplateComplete(remote)
    \/ \E id \in TemplateIds : DeleteTemplateBegin(id)
    \/ \E remote \in RemoteOutcomes : DeleteTemplateComplete(remote)

InitTemplates == InitProfile(<<>>, EmptyMap, EmptyMap, TRUE)

SpecTemplates == InitTemplates /\ [][NextTemplates]_vars

\* the outcome login reports for the k-th pending request when every
\* storage write succeeds
OutcomeWithoutFailure(k, accepted) ==
    IF accepted THEN "ok"
    ELSE IF Count(pendingLogin[k].username) + 1 < MAX_ATTEMPTS THEN "invalid"
    ELSE "locked"

(* C21: a failing write to durable storage during login is swallowed: the  *)
(* call reports the outcome it would have reported without the failure,    *)
(* and an accepted login is still reported as success.                     *)
C21_StorageFailureSwallowed ==
    [][ \A k \in 1..MaxPendingLogin, a \in BOOLEAN :
            LoginCompleteStorageFull(k, a) =>
                result'.outcome = OutcomeWithoutFailure(k, a)
      ]_vars


\* the Maps an AuthService constructed now (page reload) would hold
ReloadedAttempts == loadState(storage.attempts)
ReloadedBlock == loadState(storage.block)

(* C22: the maps in durable storage equal the maps in memory, so an        *)
(* AuthService constructed from that storage answers isBlocked and         *)
(* getRemainingAttempts for every username as the running one does.        *)
C22_StoredStateMatchesMemory ==
    /\ ReloadedAttempts = failedAttempts
    /\ ReloadedBlock = blockUntil
    /\ \A u \in Usernames :
          /\ isBlocked(ReloadedBlock, now, u) = isBlocked(blockUntil, now, u)
          /\ getRemainingAttempts(ReloadedAttempts, u)
                = getRemainingAttempts(failedAttempts, u)

\* a lock set by the third rejection is in storage, next to a count that
\* another username has accumulated
C22_Witness ==
    \E u, v \in Usernames :
        /\ u # v
        /\ isBlocked(blockUntil, now, u)
        /\ isBlocked(ReloadedBlock, now, u)
        /\ MapGetOr(ReloadedAttempts, v, 0) \in 1..(MAX_ATTEMPTS - 1)


Min(a, b) == IF a <= b THEN a ELSE b

\* the most recent min(Len(s), MAX_LOGS) entries of s, oldest first
MostRecent(s) == SubSeq(s, Len(s) - Min(Len(s), MAX_LOGS) + 1, Len(s))

\* how many entries have been evicted since the stored log was read
Evicted == StoredLen + recorded - Len(logs)

(* C23: the audit log is append-only and ordered.  It always holds the     *)
(* most recent min(n, 100) of the n events recorded so far (the stored     *)
(* ones included), the stored entries that survive keep their content and  *)
(* order, and a step that changes the log does nothing but append one      *)
(* entry at the end and evict from the front.                              *)
C23_AuditLogAppendOnly ==
    /\ [](/\ Len(logs) = Min(StoredLen + recorded, MAX_LOGS)
          /\ \A i \in 1..(StoredLen - Evicted) :
                logs[i] = StoredLogs[i + Evicted])
    /\ [][ (logs' # logs \/ recorded' # recorded) =>
             /\ recorded' = recorded + 1
             /\ logs' = MostRecent(Append(logs, Last(logs')))
         ]_vars

\* two stored entries have been evicted and the newest entry is an event of
\* this session
C23_Witness ==
    /\ Evicted >= 2
    /\ Last(logs) \notin {StoredLogs[i] : i \in 1..StoredLen}
    /\ logs[1] = StoredLogs[1 + Evicted]


(* C24: a manual logout leaves the application on the login route with a  *)
(* login page that sees the session as logged out, so that the page does  *)
(* not redirect back to the protected route.                               *)
C24_ManualLogoutStaysOnLogin ==
    [][ HookLogout =>
            /\ route' = "/login"
            /\ ~hooks'["Login"].isAuthenticated
            /\ ~RedirectPending'
      ]_vars


(* C26: a logout whose revocation call was in flight while a login stored  *)
(* a new session leaves that session alone when it resumes: the token,     *)
(* username and last-activity timestamp of the newer login stay stored.    *)
C26_LogoutSparesNewerSession ==
    [][ \A k \in 1..MaxPendingLogout, s \in LogoutResponses :
            (/\ LogoutComplete(k, s)
             /\ pendingLogout[k].newer
             /\ Truthy(token)) =>
                /\ token' = token
                /\ authUsername' = authUsername
                /\ lastActivity' = lastActivity
      ]_vars


(* C27: while a lock set by one login request is active, the completion of *)
(* another request for the same username that was already in flight does   *)
(* not remove the lock, does not move its expiry time, does not raise the  *)
(* failed-attempt count above 3 and does not create a session.             *)
C27_LateCompletionRespectsLock ==
    [][ \A k \in 1..MaxPendingLogin :
            (/\ \/ MockLoginComplete(k)
                \/ \E r \in Responses, rem \in BackendRemaining :
                       RemoteLoginComplete(k, r, rem)
             /\ isBlocked(blockUntil, now, pendingLogin[k].username)) =>
                LET u == pendingLogin[k].username
                IN  /\ u \in DOMAIN blockUntil'
                    /\ blockUntil'[u] = blockUntil[u]
                    /\ MapGetOr(failedAttempts', u, 0) <= MAX_ATTEMPTS
                    /\ token' = token
      ]_vars


(* C28: when the remote login request throws instead of returning a        *)
(* response, the failed-attempt count of the username goes up by exactly   *)
(* one, and if it reaches 3 the account is locked for 15 minutes from now. *)
C28_FailedRequestCountsAttempt ==
    [][ \A k \in 1..MaxPendingLogin :
            (\/ RemoteLoginComplete(k, "fetch_error", 0)
             \/ RemoteLoginComplete(k, "abort_no_message", 0)) =>
                LET u == pendingLogin[k].username
                IN  /\ MapGetOr(failedAttempts', u, 0) = Count(u) + 1
                    /\ MapGetOr(failedAttempts', u, 0) = MAX_ATTEMPTS =>
                          /\ u \in DOMAIN blockUntil'
                          /\ blockUntil'[u] = now + BLOCK_DURATION
      ]_vars


(* C29: a login attempt refused because a lockout is active changes        *)
(* nothing: the failed-attempt counts, the lockout timestamps (in memory   *)
(* and in storage), the stored session and the audit log are as before,    *)
(* and no audit event is recorded.                                         *)
C29_BlockedAttemptChangesNothing ==
    [][ \A c \in Credentials :
            (LoginBegin(c[1], c[2]) /\ isBlocked(blockUntil, now, c[1])) =>
                /\ result'.outcome = "blocked"
                /\ UNCHANGED <<failedAttempts, blockUntil, storage>>
                /\ UNCHANGED <<token, authUsername, lastActivity>>
                /\ UNCHANGED <<logs, recorded>>
                /\ UNCHANGED pendingLogin
      ]_vars

\* a blocked attempt made some time into the lockout window: the lock still
\* ends 15 minutes after the third rejection
C29_Witness ==
    /\ result.op = "login"
    /\ result.outcome = "blocked"
    /\ Count(result.username) = MAX_ATTEMPTS
    /\ result.username \in DOMAIN blockUntil
    /\ blockUntil[result.username] < now + BLOCK_DURATION
    /\ Len(logs) = MAX_ATTEMPTS
    /\ Last(logs).tipoEvento = "ACCOUNT_BLOCKED"


\* the names that audit events can carry
LoggedUsers == Usernames \cup {"unknown"}

(* C30: one inactivity timeout of one session records exactly one          *)
(* SESSION_EXPIRED event, naming the session's username, however many      *)
(* hook instances and timers there are, so a username never has more       *)
(* SESSION_EXPIRED than LOGIN_SUCCESS events; and SESSION_EXPIRED is never *)
(* recorded for a session that a manual logout is ending.                  *)
C30_OneExpiryPerSession ==
    /\ [](\A u \in LoggedUsers :
            LogCount(u, "SESSION_EXPIRED") <= LogCount(u, "LOGIN_SUCCESS"))
    /\ [][ Records("SESSION_EXPIRED") =>
             \A k \in 1..Len(pendingLogout) : pendingLogout[k].kind # "manual"
         ]_vars


\* the request of the template call that is completing
Pending == tplPending[1]

\* a template with this name, ignoring case, is stored (for an update: a
\* template other than the one being updated)
NameStored(name, exceptId) ==
    \E i \in 1..Len(templates) :
        /\ Lower(templates[i].name) = Lower(name)
        /\ templates[i].id # exceptId

IdStored(id) == \E i \in 1..Len(templates) : templates[i].id = id

(* C25: when the remote call of createTemplate, updateTemplate or          *)
(* deleteTemplate fails (the request throws or the answer is not 2xx), the *)
(* operation is carried out on local storage and reports success, unless   *)
(* the local precondition fails (a template, for an update another         *)
(* template, with the same name ignoring case is stored, or the id is not  *)
(* stored), in which case it fails and local storage is left alone.        *)
C25_FallbackOnRemoteFailure ==
    [][ \A r \in RemoteFailures :
          /\ (\E newId \in TemplateIds : CreateTemplateComplete(r, newId)) =>
                IF NameStored(Pending.name[1], 0)
                THEN /\ tplResult'.outcome = "duplicate_name"
                     /\ templates' = templates
                ELSE /\ tplResult'.outcome = "local"
                     /\ Len(templates') = Len(templates) + 1
                     /\ SubSeq(templates', 1, Len(templates)) = templates
                     /\ Last(templates').name = Pending.name[1]
                     /\ Last(templates').content = Pending.content[1]
          /\ UpdateTemplateComplete(r) =>
                IF ~IdStored(Pending.id)
                THEN /\ tplResult'.outcome = "not_found"
                     /\ templates' = templates
                ELSE IF /\ Pending.name \notin {None, Some("")}
                        /\ NameStored(Pending.name[1], Pending.id)
                THEN /\ tplResult'.outcome = "duplicate_name"
                     /\ templates' = templates
                ELSE /\ tplResult'.outcome = "local"
                     /\ Len(templates') = Len(templates)
                     /\ \E i \in 1..Len(templates) :
                          /\ templates[i].id = Pending.id
                          /\ templates'[i].id = Pending.id
                          /\ Pending.name # None =>
                                templates'[i].name = Pending.name[1]
                          /\ Pending.name = None =>
                                templates'[i].name = templates[i].name
                          /\ Pending.content # None =>
                                templates'[i].content = Pending.content[1]
                          /\ Pending.content = None =>
                                templates'[i].content = templates[i].content
                          /\ \A j \in 1..Len(templates) :
                                j # i => templates'[j] = templates[j]
          /\ DeleteTemplateComplete(r) =>
                IF ~IdStored(Pending.id)
                THEN /\ tplResult'.outcome = "not_found"
                     /\ templates' = templates
                ELSE /\ tplResult'.outcome = "local"
                     /\ templates' = SelectSeq(templates,
                                        LAMBDA t : t.id # Pending.id)
      ]_vars

\* an update whose request failed has been carried out on a local storage
\* that two create calls, their requests failed too, had filled
C25_Witness ==
    /\ tplResult = TplResult("update", "local")
    /\ tplPending = None
    /\ Len(templates) = MaxTemplates
    /\ \E i \in 1..Len(templates) : templates[i].name = ""

====
